---- MODULE Spec2Model ----
(***************************************************************************)
(* Model of docker/backend/app.py: a Flask service in front of PostgreSQL. *)
(* The processes are the startup path (the __main__ block) and the request *)
(* threads of the listener; the database is the environment.               *)
(***************************************************************************)
EXTENDS Integers, Sequences, FiniteSets, TLC

\* ------------------------------------------------------------------ bounds
\* Requests the listener accepts in one run.
MaxRequests == 3
\* Calls of initialize_db that replicas of the service make in one run.
MaxCalls == 3
\* ------------------------------------------------------- program constants
max_retries == 5
SleepSeconds == 5
VarcharLimit == 100

\* The request threads of the listener (Flask serves each request in a thread).
Workers == {"w1", "w2"}
Proc == {"main"} \cup Workers

Kinds == {"health", "metrics", "get_items", "create_item", "log_message"}

Method(k) == IF k \in {"create_item", "log_message"} THEN "POST" ELSE "GET"

Endpoint(k) ==
  CASE k = "health" -> "/health"
    [] k = "metrics" -> "/metrics"
    [] k = "log_message" -> "/api/log"
    [] OTHER -> "/api/items"

Statuses == {200, 201, 400, 500}

\* Label tuples of the two Prometheus counters.
RequestLabels == {<<Method(k), Endpoint(k), s>> : k \in Kinds, s \in Statuses}
DbLabels == {"connect", "initialize", "select", "insert"} \X {"success", "error"}

\* JSON values a request body can carry in its field.
JStr(s, n) == [null |-> FALSE, s |-> s, len |-> n]
JNull == [null |-> TRUE, s |-> "", len |-> 0]
NameInputs == {JStr("a", 1), JStr("b", 100), JStr("c", 101), JNull}
MessageInputs == {JStr("m", 1), JNull}

\* What request.json yields: it raises on a malformed body ("malformed"), is None
\* for a JSON null ("none"), and otherwise is the decoded value: a value that is
\* false in Python, such as 0, 0.0, false, "", [] or {} ("falsy"), an object
\* without the field ("nofield") or with it ("field"), a number other than zero
\* or true ("scalar"), or a string that contains the field's name ("text").
BodyShapes == {"malformed", "none", "falsy", "nofield", "field", "scalar", "text"}
NoValue == JNull
Body(shape, v) == [shape |-> shape, value |-> IF shape = "field" THEN v ELSE NoValue]

Requests ==
  {[kind |-> k, body |-> Body("none", NoValue)] : k \in {"health", "metrics", "get_items"}}
  \cup {[kind |-> k, body |-> Body(sh, NoValue)] :
          k \in {"create_item", "log_message"}, sh \in BodyShapes \ {"field"}}
  \cup {[kind |-> "create_item", body |-> Body("field", v)] : v \in NameInputs}
  \cup {[kind |-> "log_message", body |-> Body("field", v)] : v \in MessageInputs}

\* The requests of the runs that interleave two threads: listing and creating.
ConcRequests ==
  {r \in Requests :
     \/ r.kind = "get_items"
     \/ r.kind = "create_item" /\ r.body.shape = "field" /\ r.body.value.len \in {1, 100}}

NoReq == [kind |-> "none", body |-> Body("none", NoValue)]

\* ------------------------------------------------------------ DATABASE_URL
\* A string is the sequence of its characters.
Default == <<"d", "a", "t", "a", "b", "a", "s", "e">>
SchemeSep == <<":", "/", "/">>
Colon == <<":">>

\* sub in s
Contains(s, sub) ==
  \E k \in 1..(Len(s) - Len(sub) + 1) : SubSeq(s, k, k + Len(sub) - 1) = sub

\* s.split(sep): the pieces of s between the occurrences of sep, left to right.
RECURSIVE split(_, _)
split(s, sep) ==
  IF ~Contains(s, sep)
    THEN <<s>>
    ELSE LET k == CHOOSE j \in 1..(Len(s) - Len(sep) + 1) :
                    /\ SubSeq(s, j, j + Len(sep) - 1) = sep
                    /\ \A h \in 1..(j - 1) : SubSeq(s, h, h + Len(sep) - 1) # sep
         IN <<SubSeq(s, 1, k - 1)>> \o split(SubSeq(s, k + Len(sep), Len(s)), sep)

\* url.split('://')[1].split(':')[0] if '://' in url else url
host(url) ==
  IF Contains(url, SchemeSep)
    THEN split(split(url, SchemeSep)[2], Colon)[1]
    ELSE url

\* db_params before the module has computed it, and after.
NotLoaded == [host |-> <<>>, port |-> 0]
Loaded(url) == [host |-> host(url), port |-> 5432]

\* The values of DATABASE_URL: a bare hostname, or
\* scheme://[user[:password]@]host[:port][/path]; each with its host segment.
Schemes == {<<"p", "g">>, <<"t", "c", "p">>}
Users == {<<>>, <<"u">>}
Passwords == {<<>>, <<"p", "w">>}
Hosts == {Default, <<"d", "b">>, <<"d", "b", ".", "n", "s">>, <<"1", ".", "2">>}
Ports == {<<>>, <<"5", "4", "3", "2">>}
Paths == {<<>>, <<"a", "p", "p">>}

Url(scheme, user, password, h, port, path) ==
  scheme \o SchemeSep
    \o (IF user = <<>> THEN <<>>
        ELSE user \o (IF password = <<>> THEN <<>> ELSE Colon \o password) \o <<"@">>)
    \o h
    \o (IF port = <<>> THEN <<>> ELSE Colon \o port)
    \o (IF path = <<>> THEN <<>> ELSE <<"/">> \o path)

UrlInputs ==
  {[url |-> h, host |-> h] : h \in Hosts}
  \cup {[url |-> Url(sc, u, pw, h, po, pa), host |-> h] :
          sc \in Schemes, u \in Users, pw \in Passwords, h \in Hosts,
          po \in Ports, pa \in Paths}
NoResp == [status |-> 0]

VARIABLES
  \* the configuration
  DATABASE_URL,      \* os.environ['DATABASE_URL'], a sequence of characters
  db_params,         \* the connection parameters computed from it
  \* the database (environment)
  dbStates,          \* the states the database can be in during the run
  tables,            \* committed tables
  items,             \* committed rows of items: [id, name, created_at]
  logs,              \* committed rows of logs: [id, message, timestamp]
  itemsSeq,          \* next value of items_id_seq
  logsSeq,           \* next value of logs_id_seq
  now,               \* CURRENT_TIMESTAMP
  \* the metrics registry
  request_count,
  db_request_count,
  \* the processes
  pc,                \* position of each process
  req,               \* the request a worker is serving
  conn,              \* the local conn: "none" | "open" | "closed"
  txn,               \* uncommitted work of the open connection
  fetched,           \* rows / id fetched by the handler
  resp,              \* last response returned by a worker
  initOutcome,       \* how the last initialize_db call ended
  i,                 \* the loop index of __main__
  slept,             \* seconds __main__ has slept between attempts
  listening,         \* app.run has started the listener
  gotFirst,          \* Flask's _got_first_request
  \* history
  startupAttempts,   \* initialize_db calls made by __main__
  hookRuns,          \* initialize_db calls made by the first-request hook
  received,          \* requests accepted
  completed,         \* responses returned
  leaked,            \* connections a handler left open on return
  initLeaked,        \* connections initialize_db left open on return
  rcEvents,          \* request_count labels incremented for the current request
  dbEvents,          \* db_request_count labels incremented for the current request
  sqlEvents,         \* statements executed for the current request
  byHook,            \* how many of dbEvents and sqlEvents are the hook's
  dmlAttempts,       \* SELECT and INSERT statements sent to the database
  known,             \* <<id, name>> pairs some response has shown a client
  mustSee,           \* known, as it was when the current request arrived
  fault,             \* what the database did to the calls of the current request
  issued,            \* ids that the 201 responses of POST /api/items have carried
  overlap            \* two POST /api/items have been in flight at once

envVars == <<dbStates, DATABASE_URL, db_params>>
dbVars == <<envVars, tables, items, logs, itemsSeq, logsSeq, now>>
metricVars == <<request_count, db_request_count>>
procVars == <<pc, req, conn, txn, fetched, resp, initOutcome, i, slept, listening,
              gotFirst>>
histVars == <<startupAttempts, hookRuns, received, completed, leaked, initLeaked,
              rcEvents, dbEvents, sqlEvents, byHook, dmlAttempts, known, mustSee, fault,
              issued, overlap>>
vars == <<dbVars, metricVars, procVars, histVars>>

NoTxn == [ddl |-> {}, rows |-> {}]

\* The state the database is in when a call reaches it.
DbModes == {"reachable", "unreachable", "rejecting"}

\* fault[p].init: the first failure initialize_db met in this call; fault[p].handler:
\* the first failure the handler met ("none" when every call went through).
NoHook == [db |-> 0, sql |-> 0]

NoFault == [init |-> "none", handler |-> "none"]

\* A database that holds nothing yet.
Empty ==
  /\ tables = {}
  /\ items = {}
  /\ logs = {}
  /\ itemsSeq = 1
  /\ logsSeq = 1
  /\ now = 0

\* A database an earlier run of the service has initialized and written to.
SeedItem == [id |-> 1, name |-> JStr("a", 1), created_at |-> 1]
SeedLog == [id |-> 1, name |-> JStr("m", 1), created_at |-> 1]
Seeded ==
  /\ tables = {"items", "logs"}
  /\ items = {SeedItem}
  /\ logs = {SeedLog}
  /\ itemsSeq = 2
  /\ logsSeq = 2
  /\ now = 1

\* The process when the module has been imported, but for its configuration.
Process ==
  /\ request_count = [l \in RequestLabels |-> 0]
  /\ db_request_count = [l \in DbLabels |-> 0]
  /\ pc = [p \in Proc |-> IF p = "main" THEN "loop" ELSE "idle"]
  /\ req = [p \in Proc |-> NoReq]
  /\ conn = [p \in Proc |-> "none"]
  /\ txn = [p \in Proc |-> NoTxn]
  /\ fetched = [p \in Proc |-> <<>>]
  /\ resp = [p \in Proc |-> NoResp]
  /\ initOutcome = [p \in Proc |-> "none"]
  /\ i = 0
  /\ slept = 0
  /\ listening = FALSE
  /\ gotFirst = FALSE
  /\ startupAttempts = 0
  /\ hookRuns = 0
  /\ received = 0
  /\ completed = 0
  /\ leaked = 0
  /\ initLeaked = 0
  /\ rcEvents = [p \in Proc |-> <<>>]
  /\ dbEvents = [p \in Proc |-> <<>>]
  /\ sqlEvents = [p \in Proc |-> <<>>]
  /\ byHook = [p \in Proc |-> NoHook]
  /\ dmlAttempts = 0
  /\ known = {}
  /\ mustSee = [p \in Proc |-> {}]
  /\ fault = [p \in Proc |-> NoFault]
  /\ issued = {}
  /\ overlap = FALSE

\* The process as it is when the module has been imported, DATABASE_URL unset.
Booted == DATABASE_URL = Default /\ db_params = Loaded(DATABASE_URL) /\ Process

Started == Empty /\ Booted

\* The database may fail any call.
Init == dbStates = DbModes /\ Started

\* The database stays reachable.
ConcInit == dbStates = {"reachable"} /\ Started

\* ----------------------------------------------------------------- helpers
Inc(counter, label) == [counter EXCEPT ![label] = @ + 1]

\* Counter.labels(...).inc() on REQUEST_COUNT / DB_REQUEST_COUNT by process p.
EmitReq(p, label) ==
  /\ request_count' = Inc(request_count, label)
  /\ rcEvents' = [rcEvents EXCEPT ![p] = Append(@, label)]

EmitDb(p, label) ==
  /\ db_request_count' = Inc(db_request_count, label)
  /\ dbEvents' = [dbEvents EXCEPT ![p] = Append(@, label)]

NoReqEvent == UNCHANGED <<request_count, rcEvents>>
NoDbEvent == UNCHANGED <<db_request_count, dbEvents>>

Sql(p, stmt) == sqlEvents' = [sqlEvents EXCEPT ![p] = Append(@, stmt)]

\* A connection still open when its function returns is never closed by the code.
Leak(c) == IF c = "open" THEN 1 ELSE 0

\* A statement on an open session reaches the server unless the server is gone.
StatementRuns(m) == m # "unreachable"

\* What conn.commit() can do: the server commits and says so ("done"); the
\* server is gone before it commits and the call raises ("failed"); or the
\* server commits, is gone before its answer arrives, and the call raises
\* ("unacknowledged").
CommitOutcomes(m) == IF StatementRuns(m) THEN {"done"} ELSE {"failed", "unacknowledged"}
Raises(outcome) == outcome # "done"
Commits(outcome) == outcome # "failed"

\* Mutant of get_db_connection: connect/error is counted on both paths.
get_db_connection_counts_error(m) ==
  IF m = "reachable"
    THEN [conn |-> "open", event |-> <<"connect", "error">>]
    ELSE [conn |-> "none", event |-> <<"connect", "error">>]

\* Mutant of get_db_connection: the except clause counts connect/success.
get_db_connection_miscounts(m) ==
  IF m = "reachable"
    THEN [conn |-> "open", event |-> <<"connect", "success">>]
    ELSE [conn |-> "none", event |-> <<"connect", "success">>]

\* psycopg2.connect succeeds only against a reachable server that accepts the
\* credentials; get_db_connection turns every failure into None.
get_db_connection(m) ==
  IF m = "reachable"
    THEN [conn |-> "open", event |-> <<"connect", "success">>]
    ELSE [conn |-> "none", event |-> <<"connect", "error">>]

\* A response is observed at the instant it is returned: while a thread is
\* handing its response over ("responded"), nothing else moves.
At(p, loc) == pc[p] = loc /\ \A q \in Proc : pc[q] # "responded"

\* ------------------------------------------------------------ frame groups
startVars == <<i, slept, listening, startupAttempts>>
hookVars == <<gotFirst, hookRuns>>
arrivalVars == <<req, received, mustSee, overlap>>
returnVars == <<resp, completed, leaked, known, issued>>

\* ---------------------------------------------------------- initialize_db
InitPcs == {"init_connect", "init_create_items", "init_wait_items",
            "init_create_logs", "init_wait_logs", "init_commit", "init_close"}

\* Where initialize_db returns to: the __main__ loop or the first-request hook.
Ret(p) == IF p = "main" THEN "after_init" ELSE "hook_done"

\* Mutant of InitConnect: a failed connect is not caught and initialize_db raises.
InitConnectRaises(p) ==
  /\ At(p, "init_connect")
  /\ \E m \in dbStates :
       LET r == get_db_connection(m) IN
         /\ EmitDb(p, r.event)
         /\ conn' = [conn EXCEPT ![p] = r.conn]
         /\ fault' = [fault EXCEPT ![p].init = IF r.conn = "open" THEN "none" ELSE m]
         /\ IF r.conn = "open"
              THEN /\ pc' = [pc EXCEPT ![p] = "init_create_items"]
                   /\ UNCHANGED initOutcome
              ELSE /\ pc' = [pc EXCEPT ![p] = Ret(p)]
                   /\ initOutcome' = [initOutcome EXCEPT ![p] = "raised"]
  /\ UNCHANGED <<dbVars, startVars, hookVars, arrivalVars, returnVars>>
  /\ UNCHANGED <<request_count, rcEvents, sqlEvents, byHook, dmlAttempts>>
  /\ UNCHANGED <<txn, fetched, initLeaked>>

\* conn = get_db_connection(); if conn: ...
InitConnect(p) ==
  /\ At(p, "init_connect")
  /\ \E m \in dbStates :
       LET r == get_db_connection(m) IN
         /\ EmitDb(p, r.event)
         /\ conn' = [conn EXCEPT ![p] = r.conn]
         /\ fault' = [fault EXCEPT ![p].init = IF r.conn = "open" THEN "none" ELSE m]
         /\ IF r.conn = "open"
              THEN /\ pc' = [pc EXCEPT ![p] = "init_create_items"]
                   /\ UNCHANGED initOutcome
              ELSE /\ pc' = [pc EXCEPT ![p] = Ret(p)]
                   /\ initOutcome' = [initOutcome EXCEPT ![p] = "returned"]
  /\ UNCHANGED <<dbVars, startVars, hookVars, arrivalVars, returnVars>>
  /\ UNCHANGED <<request_count, rcEvents, sqlEvents, byHook, dmlAttempts>>
  /\ UNCHANGED <<txn, fetched, initLeaked>>

\* Another session has created table t and has neither committed nor rolled
\* back: the catalog entry is there and not yet visible.
Creating(p, t) == \E q \in Proc \ {p} : t \in txn[q].ddl

\* cur.execute('CREATE TABLE IF NOT EXISTS <t> ...'); an exception goes to the
\* except clause, which counts initialize/error. The statement skips a table it
\* sees, and creates one it does not see; when another session is creating the
\* table, it waits (`wait`) for that session to end and fails on the duplicate
\* catalog entry if that session committed.
InitCreate(p, t, at, wait, next) ==
  /\ pc[p] \in {at, wait}
  /\ At(p, pc[p])
  /\ IF pc[p] = at
       THEN /\ Sql(p, <<"create", t>>)
            /\ \E m \in dbStates :
                 IF ~StatementRuns(m)
                   THEN /\ EmitDb(p, <<"initialize", "error">>)
                        /\ pc' = [pc EXCEPT ![p] = "init_close"]
                        /\ fault' = [fault EXCEPT ![p].init = "statement"]
                        /\ UNCHANGED txn
                   ELSE /\ IF Creating(p, t)
                             THEN /\ pc' = [pc EXCEPT ![p] = wait]
                                  /\ UNCHANGED txn
                             ELSE /\ txn' = [txn EXCEPT ![p].ddl = @ \cup ({t} \ tables)]
                                  /\ pc' = [pc EXCEPT ![p] = next]
                        /\ NoDbEvent
                        /\ UNCHANGED fault
       ELSE /\ ~Creating(p, t)
            /\ UNCHANGED sqlEvents
            /\ IF t \in tables
                 THEN /\ EmitDb(p, <<"initialize", "error">>)
                      /\ pc' = [pc EXCEPT ![p] = "init_close"]
                      /\ fault' = [fault EXCEPT ![p].init = "duplicate"]
                      /\ UNCHANGED txn
                 ELSE /\ txn' = [txn EXCEPT ![p].ddl = @ \cup {t}]
                      /\ pc' = [pc EXCEPT ![p] = next]
                      /\ NoDbEvent
                      /\ UNCHANGED fault
  /\ UNCHANGED <<dbVars, startVars, hookVars, arrivalVars, returnVars>>
  /\ UNCHANGED <<request_count, rcEvents, byHook, dmlAttempts>>
  /\ UNCHANGED <<conn, fetched, initOutcome, initLeaked>>

InitCreateItems(p) ==
  InitCreate(p, "items", "init_create_items", "init_wait_items", "init_create_logs")

InitCreateLogs(p) ==
  InitCreate(p, "logs", "init_create_logs", "init_wait_logs", "init_commit")

\* conn.commit(); DB_REQUEST_COUNT.labels('initialize', 'success').inc()
InitCommit(p) ==
  /\ At(p, "init_commit")
  /\ \E m \in dbStates : \E outcome \in CommitOutcomes(m) :
       /\ tables' = IF Commits(outcome) THEN tables \cup txn[p].ddl ELSE tables
       /\ txn' = IF Commits(outcome) THEN [txn EXCEPT ![p] = NoTxn] ELSE txn
       /\ IF Raises(outcome)
            THEN /\ EmitDb(p, <<"initialize", "error">>)
                 /\ fault' = [fault EXCEPT ![p].init = "statement"]
            ELSE /\ EmitDb(p, <<"initialize", "success">>)
                 /\ UNCHANGED fault
  /\ pc' = [pc EXCEPT ![p] = "init_close"]
  /\ UNCHANGED <<envVars, items, logs, itemsSeq, logsSeq, now>>
  /\ UNCHANGED <<startVars, hookVars, arrivalVars, returnVars>>
  /\ UNCHANGED <<request_count, rcEvents, sqlEvents, byHook, dmlAttempts>>
  /\ UNCHANGED <<conn, fetched, initOutcome, initLeaked>>

\* Mutant of InitClose: there is no finally clause; the session ends with the
\* function and its connection is never closed.
InitCloseMissing(p) ==
  /\ At(p, "init_close")
  /\ LET c == conn[p] IN
       /\ conn' = [conn EXCEPT ![p] = c]
       /\ initLeaked' = initLeaked + Leak(c)
  /\ txn' = [txn EXCEPT ![p] = NoTxn]
  /\ initOutcome' = [initOutcome EXCEPT ![p] = "returned"]
  /\ pc' = [pc EXCEPT ![p] = Ret(p)]
  /\ UNCHANGED <<dbVars, metricVars, startVars, hookVars, arrivalVars, returnVars>>
  /\ UNCHANGED <<rcEvents, dbEvents, sqlEvents, byHook, dmlAttempts, fault, fetched>>

\* finally: conn.close(); an uncommitted transaction is rolled back.
InitClose(p) ==
  /\ At(p, "init_close")
  /\ LET c == "closed" IN
       /\ conn' = [conn EXCEPT ![p] = c]
       /\ initLeaked' = initLeaked + Leak(c)
  /\ txn' = [txn EXCEPT ![p] = NoTxn]
  /\ initOutcome' = [initOutcome EXCEPT ![p] = "returned"]
  /\ pc' = [pc EXCEPT ![p] = Ret(p)]
  /\ UNCHANGED <<dbVars, metricVars, startVars, hookVars, arrivalVars, returnVars>>
  /\ UNCHANGED <<rcEvents, dbEvents, sqlEvents, byHook, dmlAttempts, fault, fetched>>

\* --------------------------------------------------------------- __main__
\* for i in range(max_retries): try: initialize_db()
MainLoop ==
  /\ At("main", "loop")
  /\ IF i < max_retries
       THEN /\ startupAttempts' = startupAttempts + 1
            /\ pc' = [pc EXCEPT !["main"] = "init_connect"]
       ELSE /\ pc' = [pc EXCEPT !["main"] = "app_run"]
            /\ UNCHANGED startupAttempts
  /\ UNCHANGED <<dbVars, metricVars, hookVars, arrivalVars, returnVars>>
  /\ UNCHANGED <<i, slept, listening, conn, txn, fetched, initOutcome, initLeaked>>
  /\ UNCHANGED <<rcEvents, dbEvents, sqlEvents, byHook, dmlAttempts, fault>>

\* Mutant of MainAfterInit: the process exits when initialization failed.
MainAfterInitGivesUp ==
  /\ At("main", "after_init")
  /\ pc' = [pc EXCEPT !["main"] =
              IF fault["main"].init # "none" THEN "exited" ELSE "app_run"]
  /\ conn' = [conn EXCEPT !["main"] = "none"]
  /\ dbEvents' = [dbEvents EXCEPT !["main"] = <<>>]
  /\ sqlEvents' = [sqlEvents EXCEPT !["main"] = <<>>]
  /\ fault' = [fault EXCEPT !["main"] = NoFault]
  /\ UNCHANGED <<dbVars, metricVars, hookVars, arrivalVars, returnVars>>
  /\ UNCHANGED <<startVars, txn, fetched, initOutcome, initLeaked>>
  /\ UNCHANGED <<rcEvents, byHook, dmlAttempts>>

\* break when initialize_db returned. When it raised, the except clause sleeps
\* and the for statement binds i to the next value of range(max_retries); after
\* the last value there is no sleep, the loop ends and i keeps that value.
MainAfterInit ==
  /\ At("main", "after_init")
  /\ IF initOutcome["main"] = "raised" /\ i < max_retries - 1
       THEN /\ slept' = slept + SleepSeconds
            /\ i' = i + 1
            /\ pc' = [pc EXCEPT !["main"] = "loop"]
       ELSE /\ pc' = [pc EXCEPT !["main"] = "app_run"]
            /\ UNCHANGED <<i, slept>>
  /\ conn' = [conn EXCEPT !["main"] = "none"]
  /\ dbEvents' = [dbEvents EXCEPT !["main"] = <<>>]
  /\ sqlEvents' = [sqlEvents EXCEPT !["main"] = <<>>]
  /\ fault' = [fault EXCEPT !["main"] = NoFault]
  /\ UNCHANGED <<dbVars, metricVars, hookVars, arrivalVars, returnVars>>
  /\ UNCHANGED <<listening, startupAttempts, txn, fetched, initOutcome, initLeaked>>
  /\ UNCHANGED <<rcEvents, byHook, dmlAttempts>>

\* app.run(host='0.0.0.0', port=8080)
AppRun ==
  /\ At("main", "app_run")
  /\ listening' = TRUE
  /\ pc' = [pc EXCEPT !["main"] = "serving"]
  /\ UNCHANGED <<dbVars, metricVars, hookVars, arrivalVars, returnVars>>
  /\ UNCHANGED <<i, slept, startupAttempts, conn, txn, fetched, initOutcome, initLeaked>>
  /\ UNCHANGED <<rcEvents, dbEvents, sqlEvents, byHook, dmlAttempts, fault>>

\* --------------------------------------------------------- request threads
\* The threads that are serving a request of kind k.
InFlight(k) == {v \in Workers : req[v].kind = k /\ pc[v] \notin {"idle", "responded"}}

\* The listener hands a request to an idle thread; Flask first looks at
\* _got_first_request.
Receive(w, r) ==
  /\ At(w, "idle")
  /\ listening
  /\ received < MaxRequests
  /\ received' = received + 1
  /\ req' = [req EXCEPT ![w] = r]
  /\ mustSee' = [mustSee EXCEPT ![w] = known]
  /\ overlap' = (overlap \/ (r.kind = "create_item" /\ InFlight("create_item") # {}))
  /\ pc' = [pc EXCEPT ![w] = IF gotFirst THEN "handler" ELSE "dispatch"]
  /\ UNCHANGED <<dbVars, metricVars, startVars, hookVars, returnVars>>
  /\ UNCHANGED <<conn, txn, fetched, initOutcome, initLeaked>>
  /\ UNCHANGED <<rcEvents, dbEvents, sqlEvents, byHook, dmlAttempts, fault>>

\* The response has gone out; the thread's locals are gone with the call.
Recycle(p) ==
  /\ pc[p] = "responded"
  /\ pc' = [pc EXCEPT ![p] = "idle"]
  /\ req' = [req EXCEPT ![p] = NoReq]
  /\ resp' = [resp EXCEPT ![p] = NoResp]
  /\ conn' = [conn EXCEPT ![p] = "none"]
  /\ fetched' = [fetched EXCEPT ![p] = <<>>]
  /\ mustSee' = [mustSee EXCEPT ![p] = {}]
  /\ rcEvents' = [rcEvents EXCEPT ![p] = <<>>]
  /\ dbEvents' = [dbEvents EXCEPT ![p] = <<>>]
  /\ sqlEvents' = [sqlEvents EXCEPT ![p] = <<>>]
  /\ byHook' = [byHook EXCEPT ![p] = NoHook]
  /\ fault' = [fault EXCEPT ![p] = NoFault]
  /\ UNCHANGED <<dbVars, metricVars, startVars, hookVars>>
  /\ UNCHANGED <<received, completed, leaked, known, txn, initOutcome, initLeaked,
                 dmlAttempts, issued, overlap>>

\* Flask holds a lock while the before_first_request functions run.
HookBusy == \E v \in Workers : pc[v] \in InitPcs \cup {"hook_done"}

\* Mutant of before_first_request: _got_first_request is not looked at again
\* under the lock.
before_first_request_unchecked(w) ==
  /\ At(w, "dispatch")
  /\ ~HookBusy
  /\ hookRuns' = hookRuns + 1
  /\ pc' = [pc EXCEPT ![w] = "init_connect"]
  /\ UNCHANGED <<dbVars, metricVars, startVars, arrivalVars, returnVars>>
  /\ UNCHANGED <<gotFirst, conn, txn, fetched, initOutcome, initLeaked>>
  /\ UNCHANGED <<rcEvents, dbEvents, sqlEvents, byHook, dmlAttempts, fault>>

\* @app.before_first_request: the first request runs initialize_db before its
\* handler; a request that arrived meanwhile waits for the lock and then finds
\* _got_first_request set.
before_first_request(w) ==
  /\ At(w, "dispatch")
  /\ ~HookBusy
  /\ IF gotFirst
       THEN /\ pc' = [pc EXCEPT ![w] = "handler"]
            /\ UNCHANGED hookRuns
       ELSE /\ hookRuns' = hookRuns + 1
            /\ pc' = [pc EXCEPT ![w] = "init_connect"]
  /\ UNCHANGED <<dbVars, metricVars, startVars, arrivalVars, returnVars>>
  /\ UNCHANGED <<gotFirst, conn, txn, fetched, initOutcome, initLeaked>>
  /\ UNCHANGED <<rcEvents, dbEvents, sqlEvents, byHook, dmlAttempts, fault>>

\* The handler returns `body` with `status`; c is the state its conn is left
\* in and `shown` the <<id, name>> pairs the body shows the client.
Return(w, status, body, c, shown) ==
  /\ resp' = [resp EXCEPT ![w] = [status |-> status, body |-> body]]
  /\ conn' = [conn EXCEPT ![w] = c]
  /\ leaked' = leaked + Leak(c)
  /\ txn' = [txn EXCEPT ![w] = NoTxn]
  /\ completed' = completed + 1
  /\ known' = known \cup shown
  /\ issued' = IF status = 201 /\ req[w].kind = "create_item"
                 THEN issued \cup {body.id} ELSE issued
  /\ pc' = [pc EXCEPT ![w] = "responded"]

\* The handler goes on to its next statement.
Continue(w, next) ==
  /\ pc' = [pc EXCEPT ![w] = next]
  /\ UNCHANGED returnVars

\* Mutant of Except: the return statement leaves the status out (200).
ExceptDefaultStatus(w, e) ==
  /\ EmitReq(w, <<Method(req[w].kind), Endpoint(req[w].kind), 500>>)
  /\ Return(w, 200, [error |-> e], conn[w], {})

\* except Exception as e: count the 500 and return str(e); conn is not touched.
Except(w, e) ==
  /\ EmitReq(w, <<Method(req[w].kind), Endpoint(req[w].kind), 500>>)
  /\ Return(w, 500, [error |-> e], conn[w], {})

\* initialize_db has returned: _got_first_request = True and the handler runs
\* next. Had it raised, Flask would answer 500 and leave the flag unset.
HookDone(w) ==
  /\ At(w, "hook_done")
  /\ byHook' = [byHook EXCEPT ![w] = [db |-> Len(dbEvents[w]), sql |-> Len(sqlEvents[w])]]
  /\ IF initOutcome[w] = "raised"
       THEN /\ Return(w, 500, [error |-> "Internal Server Error"], conn[w], {})
            /\ UNCHANGED gotFirst
       ELSE /\ gotFirst' = TRUE
            /\ conn' = [conn EXCEPT ![w] = "none"]
            /\ Continue(w, "handler")
            /\ UNCHANGED txn
  /\ UNCHANGED <<dbVars, metricVars, startVars, arrivalVars>>
  /\ UNCHANGED <<hookRuns, fetched, initOutcome, initLeaked>>
  /\ UNCHANGED <<rcEvents, dbEvents, sqlEvents, dmlAttempts, fault>>

\* return jsonify({'status': 'ok', 'timestamp': datetime.now().isoformat()})
health(w) ==
  /\ At(w, "handler")
  /\ req[w].kind = "health"
  /\ Return(w, 200, [status |-> "ok", timestamp |-> <<"iso", now>>], conn[w], {})
  /\ UNCHANGED <<dbVars, metricVars, startVars, hookVars, arrivalVars>>
  /\ UNCHANGED <<fetched, initOutcome, initLeaked>>
  /\ UNCHANGED <<rcEvents, dbEvents, sqlEvents, byHook, dmlAttempts, fault>>

\* Mutant of metrics: the handler counts its own request.
metrics_counted(w) ==
  /\ At(w, "handler")
  /\ req[w].kind = "metrics"
  /\ EmitReq(w, <<"GET", "/metrics", 200>>)
  /\ Return(w, 200, [request_count |-> request_count,
                     db_request_count |-> db_request_count], conn[w], {})
  /\ UNCHANGED <<dbVars, db_request_count, startVars, hookVars, arrivalVars>>
  /\ UNCHANGED <<fetched, initOutcome, initLeaked>>
  /\ UNCHANGED <<dbEvents, sqlEvents, byHook, dmlAttempts, fault>>

\* return generate_latest(REGISTRY)
metrics(w) ==
  /\ At(w, "handler")
  /\ req[w].kind = "metrics"
  /\ Return(w, 200, [request_count |-> request_count,
                     db_request_count |-> db_request_count], conn[w], {})
  /\ UNCHANGED <<dbVars, metricVars, startVars, hookVars, arrivalVars>>
  /\ UNCHANGED <<fetched, initOutcome, initLeaked>>
  /\ UNCHANGED <<rcEvents, dbEvents, sqlEvents, byHook, dmlAttempts, fault>>

\* ------------------------------------------------------------- get_items
\* Mutant of SelectItems: the ORDER BY clause is left out.
SelectItemsUnordered(rows) ==
  {s \in [1..Cardinality(rows) -> rows] :
     \A a, b \in DOMAIN s : a # b => s[a] # s[b]}

\* SELECT * FROM items ORDER BY created_at DESC: every order of the rows that
\* is descending in created_at (rows of equal created_at come in any order).
SelectItems(rows) ==
  {s \in [1..Cardinality(rows) -> rows] :
     /\ \A a, b \in DOMAIN s : a # b => s[a] # s[b]
     /\ \A a, b \in DOMAIN s : a < b => s[a].created_at >= s[b].created_at}

\* item[2].isoformat() needs a timestamp in the created_at column.
Decodable(item) == item.created_at \in Nat

\* {'id': item[0], 'name': item[1], 'created_at': item[2].isoformat()}
FormatItem(item) ==
  [id |-> item.id, name |-> item.name.s, created_at |-> <<"iso", item.created_at>>]

FormatItems(rows) == [k \in DOMAIN rows |-> FormatItem(rows[k])]

\* conn = get_db_connection(); if not conn: count the 500 and return it.
get_items_connect(w) ==
  /\ At(w, "handler")
  /\ req[w].kind = "get_items"
  /\ \E m \in dbStates :
       LET r == get_db_connection(m) IN
         /\ EmitDb(w, r.event)
         /\ IF r.conn = "open"
              THEN /\ conn' = [conn EXCEPT ![w] = "open"]
                   /\ Continue(w, "exec")
                   /\ NoReqEvent
                   /\ UNCHANGED <<txn, fault>>
              ELSE /\ EmitReq(w, <<"GET", "/api/items", 500>>)
                   /\ Return(w, 500, [error |-> "Database connection failed"], r.conn, {})
                   /\ fault' = [fault EXCEPT ![w].handler = m]
  /\ UNCHANGED <<dbVars, startVars, hookVars, arrivalVars>>
  /\ UNCHANGED <<fetched, initOutcome, initLeaked, sqlEvents, byHook, dmlAttempts>>

\* cur.execute('SELECT ...'); items = cur.fetchall(); an exception goes to the
\* except clause.
get_items_execute(w) ==
  /\ At(w, "exec")
  /\ req[w].kind = "get_items"
  /\ Sql(w, <<"select", "items">>)
  /\ dmlAttempts' = dmlAttempts + 1
  /\ \E m \in dbStates :
       IF StatementRuns(m) /\ "items" \in tables
         THEN /\ \E rows \in SelectItems(items) : fetched' = [fetched EXCEPT ![w] = rows]
              /\ Continue(w, "finish")
              /\ NoReqEvent
              /\ UNCHANGED <<conn, txn, fault>>
         ELSE /\ Except(w, IF StatementRuns(m) THEN "UndefinedTable" ELSE "OperationalError")
              /\ fault' = [fault EXCEPT ![w].handler = "statement"]
              /\ UNCHANGED fetched
  /\ NoDbEvent
  /\ UNCHANGED <<dbVars, startVars, hookVars, arrivalVars>>
  /\ UNCHANGED <<initOutcome, initLeaked, byHook>>

\* conn.close(); format the rows; count 200 and select/success; return them.
\* A row without created_at makes isoformat raise, after the close.
get_items_finish(w) ==
  /\ At(w, "finish")
  /\ req[w].kind = "get_items"
  /\ IF \A k \in DOMAIN fetched[w] : Decodable(fetched[w][k])
       THEN LET formatted_items == FormatItems(fetched[w]) IN
              /\ EmitReq(w, <<"GET", "/api/items", 200>>)
              /\ EmitDb(w, <<"select", "success">>)
              /\ Return(w, 200, [items |-> formatted_items], "closed",
                        {<<formatted_items[k].id, formatted_items[k].name>> :
                           k \in DOMAIN formatted_items})
       ELSE /\ EmitReq(w, <<"GET", "/api/items", 500>>)
            /\ Return(w, 500, [error |-> "AttributeError"], "closed", {})
            /\ NoDbEvent
  /\ UNCHANGED <<dbVars, startVars, hookVars, arrivalVars>>
  /\ UNCHANGED <<fetched, initOutcome, initLeaked, sqlEvents, byHook, dmlAttempts, fault>>

\* ------------------------------------------------ create_item, log_message
Table(k) == IF k = "create_item" THEN "items" ELSE "logs"

Required(k) == IF k = "create_item" THEN "Name is required" ELSE "Message is required"

\* not data
Falsy(body) == body.shape \in {"none", "falsy"}

\* not data or '<field>' not in data
LacksField(body) == Falsy(body) \/ body.shape = "nofield"

\* '<field>' in data raises TypeError on a number that is not zero.
Iterable(body) == body.shape # "scalar"

\* data['<field>'] raises TypeError on a string.
Subscriptable(body) == body.shape # "text"

\* The column constraints: NOT NULL on both, VARCHAR(100) on items.name.
Storable(k, v) == ~v.null /\ (k = "create_item" => v.len <= VarcharLimit)

\* data = request.json; the presence check; conn = get_db_connection().
post_validate(w) ==
  /\ At(w, "handler")
  /\ req[w].kind \in {"create_item", "log_message"}
  /\ LET k == req[w].kind IN
       CASE req[w].body.shape = "malformed" ->
              /\ Except(w, "BadRequest")
              /\ NoDbEvent
              /\ UNCHANGED fault
         [] ~LacksField(req[w].body) /\ ~Iterable(req[w].body) ->
              /\ Except(w, "TypeError")
              /\ NoDbEvent
              /\ UNCHANGED fault
         [] LacksField(req[w].body) ->
              /\ EmitReq(w, <<"POST", Endpoint(k), 400>>)
              /\ Return(w, 400, [error |-> Required(k)], conn[w], {})
              /\ NoDbEvent
              /\ UNCHANGED fault
         [] OTHER ->
              \E m \in dbStates :
                LET r == get_db_connection(m) IN
                  /\ EmitDb(w, r.event)
                  /\ IF r.conn = "open"
                       THEN /\ conn' = [conn EXCEPT ![w] = "open"]
                            /\ Continue(w, "exec")
                            /\ NoReqEvent
                            /\ UNCHANGED <<txn, fault>>
                       ELSE /\ EmitReq(w, <<"POST", Endpoint(k), 500>>)
                            /\ Return(w, 500, [error |-> "Database connection failed"],
                                      r.conn, {})
                            /\ fault' = [fault EXCEPT ![w].handler = m]
  /\ UNCHANGED <<dbVars, startVars, hookVars, arrivalVars>>
  /\ UNCHANGED <<fetched, initOutcome, initLeaked, sqlEvents, byHook, dmlAttempts>>

\* Mutant of nextval: the id is one more than the number of committed rows.
nextval_from_rows(k) ==
  IF k = "create_item" THEN Cardinality(items) + 1 ELSE Cardinality(logs) + 1

\* id SERIAL: the INSERT takes DEFAULT nextval of the table's sequence.
nextval(k) == IF k = "create_item" THEN itemsSeq ELSE logsSeq

\* cur.execute('INSERT INTO <table> ... RETURNING id', (data['<field>'],));
\* id = cur.fetchone()[0]. The row takes the next value of the table's sequence
\* and CURRENT_TIMESTAMP, which is the time of the last insert or later. An
\* INSERT the constraints reject may have drawn its sequence value already.
post_execute(w) ==
  /\ At(w, "exec")
  /\ req[w].kind \in {"create_item", "log_message"}
  /\ LET k == req[w].kind
         v == req[w].body.value
         id == nextval(k)
     IN
       IF ~Subscriptable(req[w].body)
         THEN /\ Except(w, "TypeError")
              /\ UNCHANGED <<itemsSeq, logsSeq, now, fetched, fault, sqlEvents,
                             dmlAttempts>>
         ELSE
           /\ Sql(w, <<"insert", Table(k)>>)
           /\ dmlAttempts' = dmlAttempts + 1
           /\ \E m \in dbStates :
                IF StatementRuns(m) /\ Table(k) \in tables /\ Storable(k, v)
                  THEN /\ itemsSeq' = IF k = "create_item" THEN id + 1 ELSE itemsSeq
                       /\ logsSeq' = IF k = "log_message" THEN id + 1 ELSE logsSeq
                       /\ \E t \in {now, now + 1} :
                            /\ now' = t
                            /\ txn' = [txn EXCEPT ![w].rows =
                                         {[id |-> id, name |-> v, created_at |-> t]}]
                       /\ fetched' = [fetched EXCEPT ![w] = <<id>>]
                       /\ Continue(w, "commit")
                       /\ NoReqEvent
                       /\ UNCHANGED <<conn, fault>>
                  ELSE /\ Except(w, IF ~StatementRuns(m) THEN "OperationalError"
                                    ELSE IF Table(k) \notin tables THEN "UndefinedTable"
                                    ELSE "DataError")
                       /\ fault' = [fault EXCEPT ![w].handler = "statement"]
                       /\ \E drawn \in IF StatementRuns(m) /\ Table(k) \in tables
                                         THEN {0, 1} ELSE {0} :
                            /\ itemsSeq' = IF k = "create_item" THEN id + drawn ELSE itemsSeq
                            /\ logsSeq' = IF k = "log_message" THEN id + drawn ELSE logsSeq
                       /\ UNCHANGED <<now, fetched>>
  /\ NoDbEvent
  /\ UNCHANGED <<envVars, tables, items, logs, startVars, hookVars, arrivalVars>>
  /\ UNCHANGED <<initOutcome, initLeaked, byHook>>

\* Mutant of post_commit: a failure of conn.commit() is swallowed.
post_commit_unchecked(w) ==
  /\ At(w, "commit")
  /\ \E m \in dbStates : \E outcome \in CommitOutcomes(m) :
       /\ items' = IF Commits(outcome) /\ req[w].kind = "create_item"
                     THEN items \cup txn[w].rows ELSE items
       /\ logs' = IF Commits(outcome) /\ req[w].kind = "log_message"
                    THEN logs \cup txn[w].rows ELSE logs
  /\ txn' = [txn EXCEPT ![w] = NoTxn]
  /\ Continue(w, "finish")
  /\ NoReqEvent
  /\ NoDbEvent
  /\ UNCHANGED <<envVars, tables, itemsSeq, logsSeq, now, startVars, hookVars, arrivalVars>>
  /\ UNCHANGED <<conn, fault, fetched, initOutcome, initLeaked, sqlEvents, byHook,
                 dmlAttempts>>

\* Mutant of post_commit: conn.commit() is left out.
post_commit_skipped(w) ==
  /\ At(w, "commit")
  /\ txn' = [txn EXCEPT ![w] = NoTxn]
  /\ Continue(w, "finish")
  /\ NoReqEvent
  /\ NoDbEvent
  /\ UNCHANGED <<dbVars, startVars, hookVars, arrivalVars>>
  /\ UNCHANGED <<conn, fault, fetched, initOutcome, initLeaked, sqlEvents, byHook,
                 dmlAttempts>>

\* conn.commit(); when it raises, the except clause answers 500 whether or not
\* the server has committed the row.
post_commit(w) ==
  /\ At(w, "commit")
  /\ \E m \in dbStates : \E outcome \in CommitOutcomes(m) :
       /\ items' = IF Commits(outcome) /\ req[w].kind = "create_item"
                     THEN items \cup txn[w].rows ELSE items
       /\ logs' = IF Commits(outcome) /\ req[w].kind = "log_message"
                    THEN logs \cup txn[w].rows ELSE logs
       /\ IF Raises(outcome)
            THEN /\ Except(w, "OperationalError")
                 /\ fault' = [fault EXCEPT ![w].handler = "statement"]
            ELSE /\ txn' = [txn EXCEPT ![w] = NoTxn]
                 /\ Continue(w, "finish")
                 /\ NoReqEvent
                 /\ UNCHANGED <<conn, fault>>
  /\ NoDbEvent
  /\ UNCHANGED <<envVars, tables, itemsSeq, logsSeq, now, startVars, hookVars, arrivalVars>>
  /\ UNCHANGED <<fetched, initOutcome, initLeaked, sqlEvents, byHook, dmlAttempts>>

\* Mutant of post_finish: DB_REQUEST_COUNT is not incremented.
post_finish_uncounted(w) ==
  /\ At(w, "finish")
  /\ req[w].kind \in {"create_item", "log_message"}
  /\ LET k == req[w].kind
         id == fetched[w][1]
         echo == req[w].body.value.s
     IN
       /\ EmitReq(w, <<"POST", Endpoint(k), 201>>)
       /\ NoDbEvent
       /\ Return(w, 201, [id |-> id, echo |-> echo], "closed",
                 IF k = "create_item" THEN {<<id, echo>>} ELSE {})
  /\ UNCHANGED <<dbVars, startVars, hookVars, arrivalVars>>
  /\ UNCHANGED <<fetched, initOutcome, initLeaked, sqlEvents, byHook, dmlAttempts, fault>>

\* conn.close(); count 201 and insert/success; return the id and the field.
post_finish(w) ==
  /\ At(w, "finish")
  /\ req[w].kind \in {"create_item", "log_message"}
  /\ LET k == req[w].kind
         id == fetched[w][1]
         echo == req[w].body.value.s
     IN
       /\ EmitReq(w, <<"POST", Endpoint(k), 201>>)
       /\ EmitDb(w, <<"insert", "success">>)
       /\ Return(w, 201, [id |-> id, echo |-> echo], "closed",
                 IF k = "create_item" THEN {<<id, echo>>} ELSE {})
  /\ UNCHANGED <<dbVars, startVars, hookVars, arrivalVars>>
  /\ UNCHANGED <<fetched, initOutcome, initLeaked, sqlEvents, byHook, dmlAttempts, fault>>

\* ------------------------------------------------------------------- Next
\* Requests of every kind, served one after the other by one thread.
Next ==
  \/ \E p \in Proc : InitConnect(p)
  \/ \E p \in Proc : InitCreateItems(p)
  \/ \E p \in Proc : InitCreateLogs(p)
  \/ \E p \in Proc : InitCommit(p)
  \/ \E p \in Proc : InitClose(p)
  \/ MainLoop
  \/ MainAfterInit
  \/ AppRun
  \/ \E r \in Requests : Receive("w1", r)
  \/ \E w \in Workers : Recycle(w)
  \/ \E w \in Workers : before_first_request(w)
  \/ \E w \in Workers : HookDone(w)
  \/ \E w \in Workers : health(w)
  \/ \E w \in Workers : metrics(w)
  \/ \E w \in Workers : get_items_connect(w)
  \/ \E w \in Workers : get_items_execute(w)
  \/ \E w \in Workers : get_items_finish(w)
  \/ \E w \in Workers : post_validate(w)
  \/ \E w \in Workers : post_execute(w)
  \/ \E w \in Workers : post_commit(w)
  \/ \E w \in Workers : post_finish(w)

Spec == Init /\ [][Next]_vars

\* Listing and creating items, served by two threads at once.
ConcNext ==
  \/ \E p \in Proc : InitConnect(p)
  \/ \E p \in Proc : InitCreateItems(p)
  \/ \E p \in Proc : InitCreateLogs(p)
  \/ \E p \in Proc : InitCommit(p)
  \/ \E p \in Proc : InitClose(p)
  \/ MainLoop
  \/ MainAfterInit
  \/ AppRun
  \/ \E w \in Workers, r \in ConcRequests : Receive(w, r)
  \/ \E w \in Workers : Recycle(w)
  \/ \E w \in Workers : before_first_request(w)
  \/ \E w \in Workers : HookDone(w)
  \/ \E w \in Workers : get_items_connect(w)
  \/ \E w \in Workers : get_items_execute(w)
  \/ \E w \in Workers : get_items_finish(w)
  \/ \E w \in Workers : post_validate(w)
  \/ \E w \in Workers : post_execute(w)
  \/ \E w \in Workers : post_commit(w)
  \/ \E w \in Workers : post_finish(w)

ConcSpec == ConcInit /\ [][ConcNext]_vars

\* ------------------------------------------ initialize_db, called by itself
\* The replicas of the service that share the database; each calls
\* initialize_db when it starts.
Callers == Workers

\* A replica calls initialize_db().
CallInit(p) ==
  /\ At(p, "idle")
  /\ startupAttempts < MaxCalls
  /\ startupAttempts' = startupAttempts + 1
  /\ pc' = [pc EXCEPT ![p] = "init_connect"]
  /\ UNCHANGED <<dbVars, metricVars, hookVars, arrivalVars, returnVars>>
  /\ UNCHANGED <<i, slept, listening, conn, txn, fetched, initOutcome, initLeaked>>
  /\ UNCHANGED <<rcEvents, dbEvents, sqlEvents, byHook, dmlAttempts, fault>>

\* initialize_db has returned to the replica that called it.
InitReturns(p) ==
  /\ At(p, Ret(p))
  /\ pc' = [pc EXCEPT ![p] = "idle"]
  /\ conn' = [conn EXCEPT ![p] = "none"]
  /\ dbEvents' = [dbEvents EXCEPT ![p] = <<>>]
  /\ sqlEvents' = [sqlEvents EXCEPT ![p] = <<>>]
  /\ fault' = [fault EXCEPT ![p] = NoFault]
  /\ UNCHANGED <<dbVars, metricVars, startVars, hookVars, arrivalVars, returnVars>>
  /\ UNCHANGED <<txn, fetched, initOutcome, initLeaked>>
  /\ UNCHANGED <<rcEvents, byHook, dmlAttempts>>

\* A reachable database, new or already in use.
IdemInit == dbStates = {"reachable"} /\ (Empty \/ Seeded) /\ Booted

IdemNext ==
  \/ \E p \in Callers : CallInit(p)
  \/ \E p \in Callers : InitConnect(p)
  \/ \E p \in Callers : InitCreateItems(p)
  \/ \E p \in Callers : InitCreateLogs(p)
  \/ \E p \in Callers : InitCommit(p)
  \/ \E p \in Callers : InitClose(p)
  \/ \E p \in Callers : InitReturns(p)

IdemSpec == IdemInit /\ [][IdemNext]_vars

\* ------------------------------------------- the first requests, racing
\* The module is imported by a server instead of being run as a script: the
\* __main__ block is skipped and the listener is the server's.
RunByServer ==
  /\ At("main", "loop")
  /\ startupAttempts = 0
  /\ listening' = TRUE
  /\ pc' = [pc EXCEPT !["main"] = "serving"]
  /\ UNCHANGED <<dbVars, metricVars, hookVars, arrivalVars, returnVars>>
  /\ UNCHANGED <<i, slept, startupAttempts, conn, txn, fetched, initOutcome, initLeaked>>
  /\ UNCHANGED <<rcEvents, dbEvents, sqlEvents, byHook, dmlAttempts, fault>>

\* Requests whose handlers leave the database alone.
HookRequests == {r \in Requests : r.kind \in {"health", "metrics"}}

\* Two threads, the database failing or not at every call, the startup run or
\* skipped.
HookNext ==
  \/ \E p \in Proc : InitConnect(p)
  \/ \E p \in Proc : InitCreateItems(p)
  \/ \E p \in Proc : InitCreateLogs(p)
  \/ \E p \in Proc : InitCommit(p)
  \/ \E p \in Proc : InitClose(p)
  \/ MainLoop
  \/ MainAfterInit
  \/ AppRun
  \/ RunByServer
  \/ \E w \in Workers, r \in HookRequests : Receive(w, r)
  \/ \E w \in Workers : Recycle(w)
  \/ \E w \in Workers : before_first_request(w)
  \/ \E w \in Workers : HookDone(w)
  \/ \E w \in Workers : health(w)
  \/ \E w \in Workers : metrics(w)

HookSpec == Init /\ [][HookNext]_vars

\* --------------------------------------------------- db_params, by itself
\* The module computes db_params from the environment when it is imported.
Import ==
  /\ db_params = NotLoaded
  /\ db_params' = Loaded(DATABASE_URL)
  /\ UNCHANGED <<dbStates, DATABASE_URL, tables, items, logs, itemsSeq, logsSeq, now>>
  /\ UNCHANGED <<metricVars, procVars, histVars>>

UrlInit ==
  /\ DATABASE_URL \in {u.url : u \in UrlInputs}
  /\ db_params = NotLoaded
  /\ dbStates = DbModes
  /\ Empty
  /\ Process

UrlNext == Import

UrlSpec == UrlInit /\ [][UrlNext]_vars

\* ================================================================== claims
Responded(w) == pc[w] = "responded"

\* No request is being served.
NoneInFlight == \A w \in Workers : pc[w] \in {"idle", "responded"}

DbKinds == {"get_items", "create_item", "log_message"}

\* What the handler itself (not the first-request hook) counted and executed.
HandlerDbEvents(w) == SubSeq(dbEvents[w], byHook[w].db + 1, Len(dbEvents[w]))
HandlerSql(w) == SubSeq(sqlEvents[w], byHook[w].sql + 1, Len(sqlEvents[w]))

RECURSIVE SumOver(_, _)
SumOver(f, S) ==
  IF S = {} THEN 0
  ELSE LET x == CHOOSE y \in S : TRUE IN f[x] + SumOver(f, S \ {x})

Label(w, status) == <<Method(req[w].kind), Endpoint(req[w].kind), status>>

\* C1: a connection a handler opened is closed by the time the response is
\* returned, on every exit path, and no handler connection stays open once all
\* requests have completed.
C1Claim ==
  /\ \A w \in Workers :
       Responded(w) /\ req[w].kind \in DbKinds /\ conn[w] # "none" => conn[w] = "closed"
  /\ NoneInFlight => leaked = 0

\* C2: when every startup attempt has failed, the listener starts only after
\* max_retries initialize_db attempts.
C2Claim ==
  pc["main"] = "app_run" /\ tables = {} => startupAttempts = max_retries

\* C3: a POST whose body lacks the required field (missing or malformed body
\* included) is answered 400 with the fixed message, counts exactly
\* request_count[POST, endpoint, 400], and no database access happens while it
\* is served, also when it is the first request of the process.
C3Claim ==
  \A w \in Workers :
    Responded(w) /\ req[w].kind \in {"create_item", "log_message"}
                 /\ req[w].body.shape \in {"malformed", "none", "falsy", "nofield"}
      => /\ resp[w].status = 400
         /\ resp[w].body = [error |-> Required(req[w].kind)]
         /\ rcEvents[w] = <<Label(w, 400)>>
         /\ dbEvents[w] = <<>>
         /\ sqlEvents[w] = <<>>
         /\ conn[w] = "none"

\* C4: once no request is in flight, the request_count entries add up to the
\* number of completed requests.
C4Claim ==
  NoneInFlight => SumOver(request_count, RequestLabels) = completed

\* C5: once no request is in flight, the SELECT and INSERT statements attempted
\* equal the select and insert entries of db_request_count, success and error
\* together.
C5Claim ==
  NoneInFlight =>
    dmlAttempts = SumOver(db_request_count, {"select", "insert"} \X {"success", "error"})

\* C6: when a handler has acquired its connection and a statement then fails,
\* the response is 500 with an error payload, exactly request_count[method,
\* endpoint, 500] is counted for the request, and the handler counts neither
\* select nor insert in db_request_count.
C6Theorem ==
  \A w \in Workers :
    Responded(w) /\ fault[w].handler = "statement"
      => /\ resp[w].status = 500
         /\ DOMAIN resp[w].body = {"error"}
         /\ rcEvents[w] = <<Label(w, 500)>>
         /\ HandlerDbEvents(w) = << <<"connect", "success">> >>
         /\ HandlerSql(w) # <<>>

\* A create_item whose INSERT ran and whose commit failed has been answered.
C6Witness ==
  \E w \in Workers :
    /\ Responded(w)
    /\ fault[w].handler = "statement"
    /\ req[w].kind = "create_item"
    /\ fetched[w] # <<>>

\* C7: when the handler's connection attempt fails, the response is 500 with
\* an error field, exactly request_count[method, endpoint, 500] is counted, the
\* handler executes no statement and counts connect/error once.
C7Theorem ==
  \A w \in Workers :
    Responded(w) /\ fault[w].handler \in {"unreachable", "rejecting"}
      => /\ resp[w].status = 500
         /\ resp[w].body = [error |-> "Database connection failed"]
         /\ rcEvents[w] = <<Label(w, 500)>>
         /\ HandlerSql(w) = <<>>
         /\ HandlerDbEvents(w) = << <<"connect", "error">> >>

\* A GET /api/items that found the database unreachable has been answered.
C7Witness ==
  \E w \in Workers :
    /\ Responded(w)
    /\ req[w].kind = "get_items"
    /\ fault[w].handler = "unreachable"

\* C8: GET /health is answered 200 with {status: 'ok', timestamp}, whatever
\* the database did, also as the first request behind the hook.
C8Theorem ==
  \A w \in Workers :
    Responded(w) /\ req[w].kind = "health"
      => /\ resp[w].status = 200
         /\ DOMAIN resp[w].body = {"status", "timestamp"}
         /\ resp[w].body.status = "ok"

\* A GET /health that was the first request, behind a hook whose
\* initialize_db failed, has been answered.
C8Witness ==
  \E w \in Workers :
    /\ Responded(w)
    /\ req[w].kind = "health"
    /\ byHook[w].db > 0
    /\ fault[w].init # "none"

\* A step of the startup path.
MainStep ==
  \/ MainLoop
  \/ InitConnect("main")
  \/ InitCreateItems("main")
  \/ InitCreateLogs("main")
  \/ InitCommit("main")
  \/ InitClose("main")
  \/ MainAfterInit
  \/ AppRun

\* The startup path keeps running, and every database call it makes returns.
FairSpec == Spec /\ WF_vars(MainStep)

C9Safety ==
  /\ startupAttempts <= max_retries
  /\ listening => pc["main"] = "serving" /\ startupAttempts >= 1
  /\ \A w \in Workers :
       Responded(w) /\ fault[w].handler # "none" => resp[w].status = 500

\* C9: the startup path makes at most max_retries attempts and then starts the
\* listener, whether or not an attempt succeeded; the listener is not started
\* before the loop has ended; and a request that meets a database failure is
\* answered 500.
C9Theorem == []C9Safety /\ <>listening

\* The listener runs although no initialization succeeded, and a request met
\* the missing table.
C9Witness ==
  /\ listening
  /\ tables = {}
  /\ \E w \in Workers :
       /\ Responded(w)
       /\ fault[w].handler = "statement"
       /\ resp[w].status = 500

\* The <<id, name>> pairs of a list of formatted items, and of the stored rows.
Pairs(list) == {<<list[k].id, list[k].name>> : k \in DOMAIN list}
Stored == {<<r.id, r.name.s>> : r \in items}

\* C10: a 201 of POST /api/items carries an id >= 1 and the name sent, and the
\* item is stored; every GET /api/items answered 200 lists every item that a
\* response had shown before the GET arrived; nothing shown is ever removed.
C10Theorem ==
  /\ \A w \in Workers :
       Responded(w) /\ req[w].kind = "create_item" /\ resp[w].status = 201
         => /\ resp[w].body.id >= 1
            /\ resp[w].body.echo = req[w].body.value.s
            /\ <<resp[w].body.id, resp[w].body.echo>> \in Stored
  /\ \A w \in Workers :
       Responded(w) /\ req[w].kind = "get_items" /\ resp[w].status = 200
         => mustSee[w] \subseteq Pairs(resp[w].body.items)
  /\ known \subseteq Stored

\* A GET /api/items answered 200 after a POST /api/items was answered 201.
C10Witness ==
  \E w \in Workers :
    /\ Responded(w)
    /\ req[w].kind = "get_items"
    /\ resp[w].status = 200
    /\ mustSee[w] # {}

\* The position of the item `id` in a list of formatted items.
Position(list, id) == CHOOSE k \in DOMAIN list : list[k].id = id

\* C11: in the items array of a GET /api/items answered 200, of two listed
\* items created at times t1 < t2 the one created at t2 comes first.
C11Theorem ==
  \A w \in Workers :
    Responded(w) /\ req[w].kind = "get_items" /\ resp[w].status = 200
      => LET list == resp[w].body.items
             listed == {r \in items : \E k \in DOMAIN list : list[k].id = r.id}
         IN \A r1, r2 \in listed :
              r1.created_at < r2.created_at
                => Position(list, r2.id) < Position(list, r1.id)

\* A list of two items created at different times has been returned.
C11Witness ==
  \E w \in Workers :
    /\ Responded(w)
    /\ req[w].kind = "get_items"
    /\ resp[w].status = 200
    /\ Len(resp[w].body.items) = 2
    /\ \E r1, r2 \in items : r1.created_at < r2.created_at

\* C12: POST /api/items requests served at once against a reachable,
\* initialized database are each answered 201, the ids of the 201 responses
\* are pairwise distinct, and a GET /api/items lists every item whose 201 had
\* been returned when the GET arrived.
C12Theorem ==
  /\ Cardinality(issued) = request_count[<<"POST", "/api/items", 201>>]
  /\ \A w \in Workers :
       Responded(w) /\ req[w].kind = "create_item"
         => /\ resp[w].status = 201
            /\ resp[w].body.id \in issued
  /\ \A w, v \in Workers :
       w # v /\ fetched[w] # <<>> /\ fetched[v] # <<>>
             /\ req[w].kind = "create_item" /\ req[v].kind = "create_item"
         => fetched[w] # fetched[v]
  /\ \A w \in Workers :
       Responded(w) /\ req[w].kind = "get_items"
         => /\ resp[w].status = 200
            /\ mustSee[w] \subseteq Pairs(resp[w].body.items)

\* Two POST /api/items with different names were in flight at once, both were
\* answered 201, and a GET /api/items that arrived afterwards has been answered.
C12Witness ==
  \E w \in Workers :
    /\ Responded(w)
    /\ req[w].kind = "get_items"
    /\ overlap
    /\ Cardinality(issued) = 2
    /\ Cardinality({p[2] : p \in mustSee[w]}) = 2
    /\ {p[1] : p \in mustSee[w]} = issued

\* The last element of a non-empty sequence.
Last(seq) == seq[Len(seq)]

\* C13: against a reachable database every call of initialize_db, made after
\* another or while another is running, leaves exactly the tables items and
\* logs, keeps the rows stored in them, and reports initialize/success and no
\* error.
C13Claim ==
  \A p \in Callers :
    pc[p] = Ret(p)
      => /\ tables = {"items", "logs"}
         /\ itemsSeq = 2 => items = {SeedItem} /\ logs = {SeedLog}
         /\ dbEvents[p] # <<>>
         /\ Last(dbEvents[p]) = <<"initialize", "success">>

\* The success status and the counted operation of each database endpoint.
SuccessStatus(k) == IF k = "get_items" THEN 200 ELSE 201
Op(k) == IF k = "get_items" THEN "select" ELSE "insert"

\* C14: a request whose statements all succeeded is answered with the success
\* status of its endpoint (200 with the items for the list, 201 with the
\* generated id and the field sent for the two creates), counts exactly one
\* request_count entry, the one with that status, and exactly one
\* db_request_count[op, success] entry, once each.
C14Theorem ==
  \A w \in Workers :
    Responded(w) /\ req[w].kind \in DbKinds /\ HandlerSql(w) # <<>>
                 /\ fault[w].handler = "none"
      => LET k == req[w].kind IN
           /\ resp[w].status = SuccessStatus(k)
           /\ rcEvents[w] = <<Label(w, SuccessStatus(k))>>
           /\ HandlerDbEvents(w) = << <<"connect", "success">>, <<Op(k), "success">> >>
           /\ IF k = "get_items"
                THEN DOMAIN resp[w].body = {"items"}
                ELSE /\ resp[w].body.id = fetched[w][1]
                     /\ resp[w].body.id >= 1
                     /\ resp[w].body.echo = req[w].body.value.s

\* A POST /api/log whose INSERT and commit succeeded has been answered.
C14Witness ==
  \E w \in Workers :
    /\ Responded(w)
    /\ req[w].kind = "log_message"
    /\ HandlerSql(w) = << <<"insert", "logs">> >>
    /\ fault[w].handler = "none"
    /\ resp[w].status = 201

\* C15: while a GET /metrics is served, from its arrival to its response, no
\* request_count entry, no db_request_count entry and no stored table changes
\* (nothing is counted and no statement is executed for the request), also
\* when it is the first request of the process; and it is answered 200.
C15Claim ==
  \A w \in Workers :
    Responded(w) /\ req[w].kind = "metrics"
      => /\ resp[w].status = 200
         /\ rcEvents[w] = <<>>
         /\ dbEvents[w] = <<>>
         /\ sqlEvents[w] = <<>>

\* What one run of initialize_db by the first-request hook may count in
\* db_request_count: connect/error alone, or connect/success followed by
\* exactly one of initialize/success and initialize/error.
HookCounts ==
  { << <<"connect", "error">> >>,
    << <<"connect", "success">>, <<"initialize", "success">> >>,
    << <<"connect", "success">>, <<"initialize", "error">> >> }

\* The statements initialize_db executes, in order.
HookStatements == << <<"create", "items">>, <<"create", "logs">> >>

\* The sequences that start s.
Prefixes(s) == {SubSeq(s, 1, n) : n \in 0..Len(s)}

\* C15, amended: a GET /metrics is answered 200 with the registry as it is;
\* its handler counts nothing and executes no statement, and no request_count
\* entry changes while it is served. When it is not the first request of the
\* process nothing at all is counted or executed. When it is, the hook's one
\* run of initialize_db counts connect/error once and executes nothing, or
\* counts connect/success once and then one of initialize/success and
\* initialize/error once; the statements executed are CREATE TABLE IF NOT
\* EXISTS items and then logs, up to the first that fails, and no other; and
\* when initialize/success was counted both were executed and both tables
\* exist.
C15Theorem ==
  \A w \in Workers :
    Responded(w) /\ req[w].kind = "metrics"
      => /\ resp[w].status = 200
         /\ resp[w].body = [request_count |-> request_count,
                            db_request_count |-> db_request_count]
         /\ rcEvents[w] = <<>>
         /\ HandlerDbEvents(w) = <<>>
         /\ HandlerSql(w) = <<>>
         /\ byHook[w].db = 0 => dbEvents[w] = <<>> /\ sqlEvents[w] = <<>>
         /\ byHook[w].db > 0
              => /\ hookRuns = 1
                 /\ dbEvents[w] \in HookCounts
                 /\ sqlEvents[w] \in Prefixes(HookStatements)
                 /\ dbEvents[w] = << <<"connect", "error">> >> => sqlEvents[w] = <<>>
                 /\ Last(dbEvents[w]) = <<"initialize", "success">>
                      => /\ sqlEvents[w] = HookStatements
                         /\ tables = {"items", "logs"}

\* A GET /metrics that was the first request of the process, and whose hook
\* executed the CREATE TABLE statements and committed, has been answered.
C15Witness ==
  \E w \in Workers :
    /\ Responded(w)
    /\ req[w].kind = "metrics"
    /\ byHook[w].sql = 2
    /\ Last(dbEvents[w]) = <<"initialize", "success">>

\* C16: the host of db_params is the host segment of DATABASE_URL: the value
\* itself for a bare hostname, and the host alone, without scheme, credentials,
\* port or path, for scheme://[user[:password]@]host[:port][/path].
C16Claim ==
  db_params # NotLoaded
    => \A u \in UrlInputs : u.url = DATABASE_URL => db_params.host = u.host

\* C17: a call of get_db_connection counts exactly one db_request_count entry:
\* connect/success when it returns an open connection, connect/error when it
\* returns None; it returns to its caller on both paths and counts nothing in
\* request_count.
C17Theorem ==
  /\ \A p \in Proc :
       pc[p] = "init_create_items"
         => /\ conn[p] = "open"
            /\ dbEvents[p] = << <<"connect", "success">> >>
            /\ rcEvents[p] = <<>>
  /\ \A p \in Proc :
       pc[p] = Ret(p) /\ fault[p].init \in {"unreachable", "rejecting"}
         => /\ conn[p] = "none"
            /\ dbEvents[p] = << <<"connect", "error">> >>
            /\ sqlEvents[p] = <<>>
            /\ rcEvents[p] = <<>>
            /\ initOutcome[p] = "returned"
  /\ \A w \in Workers :
       pc[w] = "exec"
         => /\ conn[w] = "open"
            /\ HandlerDbEvents(w) = << <<"connect", "success">> >>
            /\ rcEvents[w] = <<>>
  /\ \A w \in Workers :
       Responded(w) /\ fault[w].handler \in {"unreachable", "rejecting"}
         => /\ conn[w] = "none"
            /\ HandlerDbEvents(w) = << <<"connect", "error">> >>

\* get_db_connection has returned None to initialize_db at startup, the server
\* having rejected the session.
C17Witness ==
  /\ pc["main"] = "after_init"
  /\ fault["main"].init = "rejecting"
  /\ conn["main"] = "none"

\* C18: when initialize_db returns, the connection it acquired is closed,
\* whether the tables were created and committed or a CREATE TABLE or the
\* commit failed; when it acquired none it has executed no statement; and no
\* connection opened by initialize_db is ever left open.
C18Theorem ==
  /\ \A p \in Proc :
       pc[p] = Ret(p)
         => /\ conn[p] \in {"closed", "none"}
            /\ conn[p] = "none" <=> fault[p].init \in {"unreachable", "rejecting"}
            /\ conn[p] = "none" => sqlEvents[p] = <<>>
            /\ txn[p] = NoTxn
  /\ initLeaked = 0

\* initialize_db has returned to the first-request hook after its commit
\* failed.
C18Witness ==
  \E w \in Workers :
    /\ pc[w] = "hook_done"
    /\ conn[w] = "closed"
    /\ fault[w].init = "statement"
    /\ Len(sqlEvents[w]) = 2

\* The ids of the committed rows of the table a POST endpoint writes.
CommittedIds(k) == {r.id : r \in IF k = "create_item" THEN items ELSE logs}

\* C19: in create_item and log_message the one INSERT is committed before the
\* connection is closed and before the response: a 201 carries the id of a row
\* that is committed, and a request answered 400 or 500 has committed no row.
C19Claim ==
  \A w \in Workers :
    req[w].kind \in {"create_item", "log_message"}
      => LET k == req[w].kind IN
           /\ pc[w] \in {"commit", "finish", "responded"}
                => HandlerSql(w) \in {<<>>, << <<"insert", Table(k)>> >>}
           /\ pc[w] = "finish"
                => /\ conn[w] = "open"
                   /\ txn[w] = NoTxn
                   /\ fetched[w][1] \in CommittedIds(k)
           /\ Responded(w) /\ resp[w].status = 201
                => /\ conn[w] = "closed"
                   /\ resp[w].body.id \in CommittedIds(k)
           /\ Responded(w) /\ resp[w].status \in {400, 500}
                => fetched[w] = <<>> \/ fetched[w][1] \notin CommittedIds(k)

\* The state part of C19, amended.
C19Safety ==
  \A w \in Workers :
    req[w].kind \in {"create_item", "log_message"}
      => LET k == req[w].kind IN
           /\ pc[w] \in {"commit", "finish", "responded"}
                => HandlerSql(w) \in {<<>>, << <<"insert", Table(k)>> >>}
           /\ pc[w] = "finish"
                => /\ conn[w] = "open"
                   /\ txn[w] = NoTxn
                   /\ fetched[w][1] \in CommittedIds(k)
           /\ Responded(w) /\ resp[w].status = 201
                => /\ conn[w] = "closed"
                   /\ resp[w].body.id \in CommittedIds(k)
           /\ Responded(w) /\ resp[w].status = 400
                => HandlerSql(w) = <<>> /\ fetched[w] = <<>>
           /\ Responded(w) /\ resp[w].status = 500 /\ fetched[w] # <<>>
                => /\ HandlerSql(w) = << <<"insert", Table(k)>> >>
                   /\ fault[w].handler = "statement"

\* The stored rows change only in a step in which a POST handler's
\* conn.commit() is called, and what is added is the row of its INSERT.
CommitStep ==
  \E w \in Workers :
    /\ pc[w] = "commit"
    /\ pc'[w] \in {"finish", "responded"}
    /\ fetched[w] # <<>>
    /\ items' \cup logs' = items \cup logs \cup txn[w].rows

\* C19, amended: in create_item and log_message the one INSERT is committed
\* before the connection is closed and before the response, and a 201 carries
\* the id of a row that is committed. A request answered 400 has executed no
\* statement. A request answered 500 has committed no row, except when the 500
\* comes from conn.commit() itself raising: the INSERT had then returned its id,
\* and the row is committed or not according to whether the server applied the
\* commit before the call failed. No row is stored by any other step.
C19Theorem ==
  /\ []C19Safety
  /\ [][items' # items \/ logs' # logs => CommitStep]_vars

\* A POST /api/items was answered 500 because conn.commit() raised, and the row
\* its INSERT returned the id of is committed.
C19Witness ==
  \E w \in Workers :
    /\ Responded(w)
    /\ req[w].kind = "create_item"
    /\ resp[w].status = 500
    /\ fetched[w] # <<>>
    /\ fetched[w][1] \in CommittedIds("create_item")

C20Safety ==
  /\ hookRuns <= 1
  /\ gotFirst => hookRuns = 1
  /\ \A w \in Workers : pc[w] \in {"handler", "responded"} => gotFirst
  /\ SumOver(db_request_count, {"connect"} \X {"success", "error"})
       <= startupAttempts + 1
  /\ startupAttempts <= max_retries

\* C20: the first-request hook runs initialize_db once per process and no
\* more, and it has run and returned before any handler runs, whether the
\* startup initialization succeeded, failed or was skipped; the initialization
\* attempts of a process are at most the startup attempts plus one; and once
\* the hook has run the tables never change again, so tables that no attempt
\* created are never created.
C20Theorem == []C20Safety /\ [][gotFirst => tables' = tables]_vars

\* The startup was skipped, the hook's initialize_db failed, two requests
\* raced for the hook, and the one that did not run it has been answered with
\* the tables still missing.
C20Witness ==
  \E w \in Workers :
    /\ Responded(w)
    /\ byHook[w] = NoHook
    /\ startupAttempts = 0
    /\ hookRuns = 1
    /\ tables = {}
    /\ completed = 1
    /\ \E v \in Workers \ {w} : pc[v] = "handler" /\ byHook[v].db > 0

====
